---- MODULE Spec2Model ----
(***************************************************************************)
(* Detective Quest (nivel mestre): the mansion map (binary tree of Sala),  *)
(* the BST of collected clues (PistaNode), the chained hash table          *)
(* clue -> suspect (HashTable), the exploration loop explorarSalas and the *)
(* final judgement verificarSuspeitoFinal of src/algoritmos_avancados.c.   *)
(*                                                                         *)
(* C strings are sequences of bytes (0..255, as unsigned char).  A pointer *)
(* is NULL (the empty tuple) or a one-element tuple holding the pointee.   *)
(***************************************************************************)
EXTENDS Integers, Sequences, FiniteSets, TLC

VARIABLES
    salas,       \* the mansion: sala id -> [nome, pista, esq, dir]
    ht,          \* HashTable: [buckets, tamanho]
    pistasRoot,  \* root pointer of the BST of collected clues
    atual,       \* explorarSalas: pointer (sala id) to the current room
    historico,   \* explorarSalas: names of the rooms visited, n = Len(historico)
    cap,         \* explorarSalas: capacity of the historico buffer
    fase,        \* position of the program (main / harness)
    sinal,       \* last message printed by the command branch of explorarSalas
    emitido,     \* the history listing printed when explorarSalas ends
    lidas,       \* the lines read from stdin so far
    eof,         \* stdin has reached end-of-input
    lista,       \* verificarSuspeitoFinal: the SuspeitoConta list it built
    veredito,    \* result printed by verificarSuspeitoFinal
    inseridas,   \* the non-empty clue texts passed to inserirPista so far
    cenario,     \* the environment of the run: keyboard lines and memory
    erros,       \* the diagnostics printed on stderr, in order
    ultimo,      \* the <<pista, suspeito>> of the last inserirNaHash call per pista
    passos,      \* explorarSalas: how many times atual moved to a child
    listagem,    \* what listarSuspeitosHash printed inside verificarSuspeitoFinal
    anuncio,     \* explorarSalas: the clue and the suspect printed for the room entered
    rastro,      \* the steps of main and explorarSalas so far, in order, each with
                 \* the structures it reads and the structures it releases
    liberados    \* the free() calls of the teardown, in order, by structure,
                 \* and the pointer liberarSalas was called on (mapa)

vars == <<salas, ht, pistasRoot, atual, historico, cap, fase, sinal, emitido,
          lidas, eof, lista, veredito, inseridas, cenario, erros, ultimo, passos,
          listagem, anuncio, rastro, liberados>>

----------------------------------------------------------------------------
(* Bounds of the model *)

\* explorarSalas is followed until the history holds this many entries
MaxHist == 7
\* the same, when the keyboard delivers the lines of LinhasTeclado
MaxHistTeclado == 3
\* the same, when memory is scarce
MaxHistEscassez == 4
\* allocations that fail in a run with scarce memory
MaxFalhas == 1

----------------------------------------------------------------------------
(* Program constants *)

\* criarHash(31) in main
NumBuckets == 31
\* initial capacity of the history buffer
CapInicial == 6
\* char buf[128] / acusado_norm[128] / nome_norm[128]
TamBuf == 128
\* clues needed for a guilty verdict
MinPistas == 2
\* djb2 seed
SementeHash == 5381

----------------------------------------------------------------------------
(* Strings of the program, as bytes (UTF-8 source encoding) *)

\* "Pegadas de lama"
PegadasDeLama == <<80, 101, 103, 97, 100, 97, 115, 32, 100, 101, 32, 108, 97, 109, 97>>
\* "Livro com pagina faltando" (a-acute is 195 161)
LivroPagina == <<76, 105, 118, 114, 111, 32, 99, 111, 109, 32, 112, 195, 161, 103,
                 105, 110, 97, 32, 102, 97, 108, 116, 97, 110, 100, 111>>
\* "Chave perdida"
ChavePerdida == <<67, 104, 97, 118, 101, 32, 112, 101, 114, 100, 105, 100, 97>>
\* "Lencol manchado" (c-cedilla is 195 167)
LencolManchado == <<76, 101, 110, 195, 167, 111, 108, 32, 109, 97, 110, 99, 104, 97,
                    100, 111>>
\* "Gaveta perdida"
GavetaPerdida == <<71, 97, 118, 101, 116, 97, 32, 112, 101, 114, 100, 105, 100, 97>>
\* "Jardineiro"
Jardineiro == <<74, 97, 114, 100, 105, 110, 101, 105, 114, 111>>
\* "Empregado"
Empregado == <<69, 109, 112, 114, 101, 103, 97, 100, 111>>
\* "Bibliotecario" (a-acute is 195 161)
Bibliotecario == <<66, 105, 98, 108, 105, 111, 116, 101, 99, 195, 161, 114, 105, 111>>

----------------------------------------------------------------------------
(* Pointers *)

NULL == <<>>
Ptr(x) == <<x>>
Deref(p) == p[1]

----------------------------------------------------------------------------
(* <string.h> / <ctype.h> in the "C" locale *)

Sinal(d) == IF d < 0 THEN -1 ELSE IF d > 0 THEN 1 ELSE 0

MenorIndice(S) == CHOOSE i \in S : \A j \in S : i <= j

\* variant: the bytes compared as signed char
strcmp_com_sinal(a, b) ==
    LET sc(c) == IF c >= 128 THEN c - 256 ELSE c
        m == IF Len(a) < Len(b) THEN Len(a) ELSE Len(b)
        dif == {i \in 1..m : a[i] # b[i]}
    IN  IF dif = {} THEN Sinal(Len(a) - Len(b))
        ELSE Sinal(sc(a[MenorIndice(dif)]) - sc(b[MenorIndice(dif)]))

\* strcmp: the sign of the first differing byte, compared as unsigned char;
\* a proper prefix compares below (its terminating 0 against a byte >= 1)
strcmp(a, b) ==
    LET m == IF Len(a) < Len(b) THEN Len(a) ELSE Len(b)
        dif == {i \in 1..m : a[i] # b[i]}
    IN  IF dif = {} THEN Sinal(Len(a) - Len(b))
        ELSE Sinal(a[MenorIndice(dif)] - b[MenorIndice(dif)])

tolower(c) == IF c >= 65 /\ c <= 90 THEN c + 32 ELSE c

isspace(c) == c \in {32, 9, 10, 11, 12, 13}

\* strncpy(dst, s, tam-1); dst[tam-1] = 0
strncpy(s, tam) == IF Len(s) > tam - 1 THEN SubSeq(s, 1, tam - 1) ELSE s

str_lower(s) == [i \in 1..Len(s) |-> tolower(s[i])]

----------------------------------------------------------------------------
(* BST of collected clues: a PistaNode pointer is NULL or Ptr([pista, esq, dir]) *)

RECURSIVE inserirPista(_, _, _)

\* variant: without the test for an equal clue, which then goes to the right
inserirPista_sem_igual(raiz, pista, n) ==
    IF pista = NULL \/ Deref(pista) = <<>> THEN raiz
    ELSE IF raiz = NULL
         THEN IF n THEN Ptr([pista |-> Deref(pista), esq |-> NULL, dir |-> NULL])
              ELSE NULL
    ELSE LET no == Deref(raiz)
             cmp == strcmp(Deref(pista), no.pista)
         IN  IF cmp < 0
             THEN Ptr([no EXCEPT !.esq = inserirPista(no.esq, pista, n)])
             ELSE Ptr([no EXCEPT !.dir = inserirPista(no.dir, pista, n)])

\* variant: the smaller clue goes to the right and the larger to the left
inserirPista_invertida(raiz, pista, n) ==
    IF pista = NULL \/ Deref(pista) = <<>> THEN raiz
    ELSE IF raiz = NULL
         THEN IF n THEN Ptr([pista |-> Deref(pista), esq |-> NULL, dir |-> NULL])
              ELSE NULL
    ELSE LET no == Deref(raiz)
             cmp == strcmp(Deref(pista), no.pista)
         IN  IF cmp = 0 THEN raiz
             ELSE IF cmp < 0
                  THEN Ptr([no EXCEPT !.dir = inserirPista(no.dir, pista, n)])
             ELSE Ptr([no EXCEPT !.esq = inserirPista(no.esq, pista, n)])

\* pista is a char pointer: NULL or Ptr(string); n tells whether the malloc of
\* the new node, when it is reached, returns a node
inserirPista(raiz, pista, n) ==
    IF pista = NULL \/ Deref(pista) = <<>> THEN raiz
    ELSE IF raiz = NULL
         THEN IF n THEN Ptr([pista |-> Deref(pista), esq |-> NULL, dir |-> NULL])
              ELSE NULL
    ELSE LET no == Deref(raiz)
             cmp == strcmp(Deref(pista), no.pista)
         IN  IF cmp = 0 THEN raiz
             ELSE IF cmp < 0
                  THEN Ptr([no EXCEPT !.esq = inserirPista(no.esq, pista, n)])
             ELSE Ptr([no EXCEPT !.dir = inserirPista(no.dir, pista, n)])

\* inserirPista printed "Erro: alocacao PistaNode": the malloc was reached, which
\* is when a successful call adds a node, and returned NULL
erro_inserirPista(raiz, pista, n) == ~n /\ inserirPista(raiz, pista, TRUE) # raiz

RECURSIVE exibirPistas(_)
\* the clues in the order exibirPistas prints them
exibirPistas(raiz) ==
    IF raiz = NULL THEN <<>>
    ELSE exibirPistas(Deref(raiz).esq) \o <<Deref(raiz).pista>>
            \o exibirPistas(Deref(raiz).dir)

RECURSIVE liberarPistas(_, _)

\* the free() calls of liberarPistas, in order; a block is named by the node
\* that owns it (onde: the path to the node from the root) and by its field
liberarPistas(raiz, onde) ==
    IF raiz = NULL THEN <<>>
    ELSE liberarPistas(Deref(raiz).esq, Append(onde, "esq"))
            \o liberarPistas(Deref(raiz).dir, Append(onde, "dir"))
            \o <<[no |-> onde, campo |-> "pista"], [no |-> onde, campo |-> "no"]>>

----------------------------------------------------------------------------
(* Hash table clue -> suspect *)

\* unsigned long is 64 bits wide (LP64): four 16-bit limbs, least significant first
Limbo == 65536

\* hash = ((hash << 5) + hash) + c, modulo 2^64
hash_passo(h, c) ==
    LET v1 == h[1] * 33 + c
        v2 == h[2] * 33 + (v1 \div Limbo)
        v3 == h[3] * 33 + (v2 \div Limbo)
        v4 == h[4] * 33 + (v3 \div Limbo)
    IN  <<v1 % Limbo, v2 % Limbo, v3 % Limbo, v4 % Limbo>>

\* laco[i, hash]: the while loop from byte i of str on, with hash so far
hash_djb2(str) ==
    LET laco[i \in 1..(Len(str) + 1), hash \in Seq(0..(Limbo - 1))] ==
            IF i > Len(str) THEN hash
            ELSE laco[i + 1, hash_passo(hash, str[i])]
    IN  laco[1, <<SementeHash, 0, 0, 0>>]

\* hash % tamanho
hash_mod(h, tamanho) ==
    LET r4 == h[4] % tamanho
        r3 == (r4 * Limbo + h[3]) % tamanho
        r2 == (r3 * Limbo + h[2]) % tamanho
    IN  (r2 * Limbo + h[1]) % tamanho

\* HashTable pointer: NULL or Ptr([buckets, tamanho]); buckets[i+1] is bucket i,
\* a chain of HashEntry [chave, suspeito] from its head
criarHash(tamanho) ==
    Ptr([buckets |-> [i \in 1..tamanho |-> <<>>], tamanho |-> tamanho])

\* positions of the chain whose key equals pista
Achados(cadeia, pista) == {i \in 1..Len(cadeia) : strcmp(cadeia[i].chave, pista) = 0}

\* variant: a new entry at the head of the chain, without the search
inserirNaHash_sem_busca(tab, pista, suspeito, novo) ==
    IF tab = NULL \/ pista = NULL \/ suspeito = NULL THEN tab
    ELSE LET t == Deref(tab)
             b == hash_mod(hash_djb2(Deref(pista)), t.tamanho) + 1
             cadeia == t.buckets[b]
         IN  IF ~novo THEN tab
             ELSE Ptr([t EXCEPT !.buckets[b] =
                         <<[chave |-> Deref(pista), suspeito |-> Deref(suspeito)]>>
                            \o cadeia])

\* novo tells whether the malloc of the new entry, when it is reached, returns one
inserirNaHash(tab, pista, suspeito, novo) ==
    IF tab = NULL \/ pista = NULL \/ suspeito = NULL THEN tab
    ELSE LET t == Deref(tab)
             b == hash_mod(hash_djb2(Deref(pista)), t.tamanho) + 1
             cadeia == t.buckets[b]
             ach == Achados(cadeia, Deref(pista))
         IN  IF ach # {}
             THEN Ptr([t EXCEPT !.buckets[b][MenorIndice(ach)].suspeito =
                                    Deref(suspeito)])
             ELSE IF ~novo THEN tab
             ELSE Ptr([t EXCEPT !.buckets[b] =
                         <<[chave |-> Deref(pista), suspeito |-> Deref(suspeito)]>>
                            \o cadeia])

\* inserirNaHash printed "Erro: alocar HashEntry"
erro_inserirNaHash(tab, pista, suspeito, novo) ==
    /\ tab # NULL /\ pista # NULL /\ suspeito # NULL
    /\ ~novo
    /\ LET t == Deref(tab)
       IN  Achados(t.buckets[hash_mod(hash_djb2(Deref(pista)), t.tamanho) + 1],
                   Deref(pista)) = {}

\* variant: the head of the chain is taken for the entry of pista
encontrarSuspeito_sem_strcmp(tab, pista) ==
    IF tab = NULL \/ pista = NULL THEN NULL
    ELSE LET t == Deref(tab)
             cadeia == t.buckets[hash_mod(hash_djb2(Deref(pista)), t.tamanho) + 1]
         IN  IF cadeia # <<>> THEN Ptr(cadeia[1].suspeito) ELSE NULL

\* NULL or a pointer to the suspect stored for pista
encontrarSuspeito(tab, pista) ==
    IF tab = NULL \/ pista = NULL THEN NULL
    ELSE LET t == Deref(tab)
             cadeia == t.buckets[hash_mod(hash_djb2(Deref(pista)), t.tamanho) + 1]
             ach == Achados(cadeia, Deref(pista))
         IN  IF ach # {} THEN Ptr(cadeia[MenorIndice(ach)].suspeito) ELSE NULL

\* the free() calls of liberarHash, in order: of entry j of bucket i its key,
\* its suspect and the entry, then the bucket array and the table
liberarHash(tab) ==
    IF tab = NULL THEN <<>>
    ELSE LET t == Deref(tab)
             cadeia(i) ==
                 LET c[j \in 0..Len(t.buckets[i])] ==
                         IF j = 0 THEN <<>>
                         ELSE c[j - 1] \o <<[bucket |-> i - 1, pos |-> j, campo |-> "chave"],
                                            [bucket |-> i - 1, pos |-> j, campo |-> "suspeito"],
                                            [bucket |-> i - 1, pos |-> j, campo |-> "entrada"]>>
                 IN  c[Len(t.buckets[i])]
             todas[i \in 0..t.tamanho] ==
                 IF i = 0 THEN <<>> ELSE todas[i - 1] \o cadeia(i)
         IN  todas[t.tamanho]
                \o <<[bucket |-> 0, pos |-> 0, campo |-> "buckets"],
                     [bucket |-> 0, pos |-> 0, campo |-> "tabela"]>>

\* nothing was printed
SemListagem == [cabecalho |-> FALSE, nenhum |-> FALSE, nomes |-> <<>>]

\* variant: every entry is listed, without the search of the list
listarSuspeitosHash_sem_busca(tab) ==
    IF tab = NULL THEN SemListagem
    ELSE LET t == Deref(tab)
             entradas[i \in 0..t.tamanho] ==
                 IF i = 0 THEN <<>> ELSE entradas[i - 1] \o t.buckets[i]
             es == entradas[t.tamanho]
             l[k \in 0..Len(es)] ==
                 IF k = 0 THEN <<>> ELSE <<es[k].suspeito>> \o l[k - 1]
         IN  [cabecalho |-> TRUE, nenhum |-> l[Len(es)] = <<>>, nomes |-> l[Len(es)]]

\* what listarSuspeitosHash prints: the header, then the names of its list from
\* the head, or the line "(nenhum suspeito cadastrado)"
listarSuspeitosHash(tab) ==
    IF tab = NULL THEN SemListagem
    ELSE LET t == Deref(tab)
             \* the entries in the order the two loops meet them
             entradas[i \in 0..t.tamanho] ==
                 IF i = 0 THEN <<>> ELSE entradas[i - 1] \o t.buckets[i]
             es == entradas[t.tamanho]
             \* the list after the first k entries
             l[k \in 0..Len(es)] ==
                 IF k = 0 THEN <<>>
                 ELSE LET ant == l[k - 1]
                      IN  IF \E j \in 1..Len(ant) :
                                 strcmp(ant[j], es[k].suspeito) = 0
                          THEN ant
                          ELSE <<es[k].suspeito>> \o ant
         IN  [cabecalho |-> TRUE, nenhum |-> l[Len(es)] = <<>>, nomes |-> l[Len(es)]]

----------------------------------------------------------------------------
(* Judgement *)

\* variant: a new node for every clue, without the search of the list
conta_suspeito_add_sem_busca(l, nome) ==
    IF nome = NULL THEN l ELSE <<[nome |-> Deref(nome), cont |-> 1]>> \o l

\* the SuspeitoConta list is a sequence of [nome, cont] from its head
conta_suspeito_add(l, nome) ==
    IF nome = NULL THEN l
    ELSE LET ach == {i \in 1..Len(l) : strcmp(l[i].nome, Deref(nome)) = 0}
         IN  IF ach # {}
             THEN [l EXCEPT ![MenorIndice(ach)].cont = @ + 1]
             ELSE <<[nome |-> Deref(nome), cont |-> 1]>> \o l

RECURSIVE contar_pre_ordem(_, _, _)
\* variant: the node is counted before its left subtree
contar_pre_ordem(raiz, tab, l) ==
    IF raiz = NULL THEN l
    ELSE LET sus == encontrarSuspeito(tab, Ptr(Deref(raiz).pista))
             l1 == IF sus # NULL THEN conta_suspeito_add(l, sus) ELSE l
             l2 == contar_pre_ordem(Deref(raiz).esq, tab, l1)
         IN  contar_pre_ordem(Deref(raiz).dir, tab, l2)

RECURSIVE contar_pistas_por_suspeito(_, _, _)
contar_pistas_por_suspeito(raiz, tab, l) ==
    IF raiz = NULL THEN l
    ELSE LET l1 == contar_pistas_por_suspeito(Deref(raiz).esq, tab, l)
             sus == encontrarSuspeito(tab, Ptr(Deref(raiz).pista))
             l2 == IF sus # NULL THEN conta_suspeito_add(l1, sus) ELSE l1
         IN  contar_pistas_por_suspeito(Deref(raiz).dir, tab, l2)

\* ler_linha: what a line of stdin leaves in a buffer of tam bytes (the line
\* without its newline); at end-of-input the buffer is the empty string
ler_linha(linha, fim, tam) == IF fim THEN <<>> ELSE strncpy(linha, tam)

\* variant: one clue is enough for the guilty verdict
JulgarLimiarErrado(l, buf) ==
    LET acusado_norm == str_lower(strncpy(buf, TamBuf))
        ach == {i \in 1..Len(l) :
                  strcmp(str_lower(strncpy(l[i].nome, TamBuf)), acusado_norm) = 0}
    IN  IF ach = {} THEN "Improcedente"
        ELSE IF l[MenorIndice(ach)].cont + 1 >= MinPistas THEN "Culpado"
        ELSE "Insuficiente"

\* variant: more than MinPistas clues are asked for
JulgarMaiorQue(l, buf) ==
    LET acusado_norm == str_lower(strncpy(buf, TamBuf))
        ach == {i \in 1..Len(l) :
                  strcmp(str_lower(strncpy(l[i].nome, TamBuf)), acusado_norm) = 0}
    IN  IF ach = {} THEN "Improcedente"
        ELSE IF l[MenorIndice(ach)].cont > MinPistas THEN "Culpado"
        ELSE "Insuficiente"

\* variant: the counts of all the entries that match are added up
JulgarSoma(l, buf) ==
    LET acusado_norm == str_lower(strncpy(buf, TamBuf))
        ach == {i \in 1..Len(l) :
                  strcmp(str_lower(strncpy(l[i].nome, TamBuf)), acusado_norm) = 0}
        soma[k \in 0..Len(l)] ==
            IF k = 0 THEN 0
            ELSE soma[k - 1] + (IF k \in ach THEN l[k].cont ELSE 0)
    IN  IF ach = {} THEN "Improcedente"
        ELSE IF soma[Len(l)] >= MinPistas THEN "Culpado"
        ELSE "Insuficiente"

\* the search of the list for the accused name, and the verdict printed
Julgar(l, buf) ==
    LET acusado_norm == str_lower(strncpy(buf, TamBuf))
        ach == {i \in 1..Len(l) :
                  strcmp(str_lower(strncpy(l[i].nome, TamBuf)), acusado_norm) = 0}
    IN  IF ach = {} THEN "Improcedente"
        ELSE IF l[MenorIndice(ach)].cont >= MinPistas THEN "Culpado"
        ELSE "Insuficiente"

\* variant: no early return on an empty clue tree
verificarSemAtalho(raiz, tab, linha, fim) ==
    LET l == contar_pistas_por_suspeito(raiz, tab, <<>>)
        buf == ler_linha(linha, fim, TamBuf)
    IN  [veredito |-> IF buf = <<>> THEN "Cancelada" ELSE Julgar(l, buf),
         lista |-> l, leu |-> TRUE, listagem |-> listarSuspeitosHash(tab)]

\* variant: the empty name is searched like any other
verificarSemCancelar(raiz, tab, linha, fim) ==
    IF raiz = NULL
    THEN [veredito |-> "SemPistas", lista |-> <<>>, leu |-> FALSE,
          listagem |-> SemListagem]
    ELSE LET l == contar_pistas_por_suspeito(raiz, tab, <<>>)
             buf == ler_linha(linha, fim, TamBuf)
         IN  [veredito |-> Julgar(l, buf),
              lista |-> l, leu |-> TRUE, listagem |-> listarSuspeitosHash(tab)]

\* verificarSuspeitoFinal as a function of the line it reads (when it reads one):
\* the verdict, the list it built, whether stdin was read, and the listing of
\* the suspects it printed
verificarSuspeitoFinal(raiz, tab, linha, fim) ==
    IF raiz = NULL
    THEN [veredito |-> "SemPistas", lista |-> <<>>, leu |-> FALSE,
          listagem |-> SemListagem]
    ELSE LET l == contar_pistas_por_suspeito(raiz, tab, <<>>)
             buf == ler_linha(linha, fim, TamBuf)
         IN  [veredito |-> IF buf = <<>> THEN "Cancelada" ELSE Julgar(l, buf),
              lista |-> l, leu |-> TRUE, listagem |-> listarSuspeitosHash(tab)]

----------------------------------------------------------------------------
(* The mansion *)

\* criarSala: a missing or empty clue is stored as NULL
criarSala(nome, pista) ==
    [nome |-> nome,
     pista |-> IF pista # NULL /\ Deref(pista) # <<>> THEN pista ELSE NULL,
     esq |-> NULL, dir |-> NULL]

\* the map main builds; a Sala pointer is NULL or Ptr(id)
Mansao ==
    LET s == [hall      |-> criarSala("Hall de Entrada", Ptr(PegadasDeLama)),
              salaEstar |-> criarSala("Sala de Estar", Ptr(LivroPagina)),
              corredor  |-> criarSala("Corredor", NULL),
              cozinha   |-> criarSala("Cozinha", Ptr(ChavePerdida)),
              biblioteca |-> criarSala("Biblioteca", NULL),
              quarto    |-> criarSala("Quarto", Ptr(LencolManchado)),
              jardim    |-> criarSala("Jardim", Ptr(GavetaPerdida))]
    IN  [s EXCEPT !.hall.esq = Ptr("salaEstar"), !.hall.dir = Ptr("corredor"),
                  !.salaEstar.esq = Ptr("cozinha"),
                  !.salaEstar.dir = Ptr("biblioteca"),
                  !.corredor.esq = Ptr("quarto"), !.corredor.dir = Ptr("jardim")]

\* the associations main inserts, in its order
Associacoes ==
    <<<<PegadasDeLama, Jardineiro>>, <<GavetaPerdida, Jardineiro>>,
      <<ChavePerdida, Empregado>>, <<LencolManchado, Empregado>>,
      <<LivroPagina, Bibliotecario>>>>

\* main's calls of inserirNaHash from the i-th on, on the table r.tab with the
\* diagnostics r.erros printed so far; falhas: the calls whose malloc fails
RECURSIVE InserirTodas(_, _, _, _)
InserirTodas(r, as, i, falhas) ==
    IF i > Len(as) THEN r
    ELSE LET pista == Ptr(as[i][1])
             suspeito == Ptr(as[i][2])
             novo == i \notin falhas
         IN  InserirTodas(
                 [tab |-> inserirNaHash(r.tab, pista, suspeito, novo),
                  erros |-> IF erro_inserirNaHash(r.tab, pista, suspeito, novo)
                            THEN Append(r.erros, "HashEntry") ELSE r.erros],
                 as, i + 1, falhas)

\* the table and the diagnostics after main's insertions
MainInsere(falhas) ==
    InserirTodas([tab |-> criarHash(NumBuckets), erros |-> <<>>], Associacoes, 1,
                 falhas)

TabelaDeMain == MainInsere({}).tab

\* the <<pista, suspeito>> of the last call for each pista
UltimasDe(as) ==
    {<<as[i][1], as[i][2]>> :
        i \in {i \in 1..Len(as) : \A j \in (i + 1)..Len(as) : as[j][1] # as[i][1]}}

RECURSIVE liberarSalas(_)

\* variant: the room's clue is released before the recursion and again after it
liberarSalas_duas_vezes(raiz) ==
    IF raiz = NULL THEN <<>>
    ELSE LET s == salas[Deref(raiz)]
             pista == IF s.pista # NULL
                      THEN <<[sala |-> Deref(raiz), campo |-> "pista"]>> ELSE <<>>
         IN  pista \o liberarSalas(s.esq) \o liberarSalas(s.dir)
                \o <<[sala |-> Deref(raiz), campo |-> "nome"]>>
                \o pista
                \o <<[sala |-> Deref(raiz), campo |-> "sala"]>>

\* the free() calls of liberarSalas, in order; a block is named by the room
\* that owns it and by its field
liberarSalas(raiz) ==
    IF raiz = NULL THEN <<>>
    ELSE LET s == salas[Deref(raiz)]
         IN  liberarSalas(s.esq) \o liberarSalas(s.dir)
                \o <<[sala |-> Deref(raiz), campo |-> "nome"]>>
                \o (IF s.pista # NULL
                    THEN <<[sala |-> Deref(raiz), campo |-> "pista"]>> ELSE <<>>)
                \o <<[sala |-> Deref(raiz), campo |-> "sala"]>>

----------------------------------------------------------------------------
(* stdin *)

\* lines the player may type while exploring: "e", " D", "s", "x"
Linhas == {<<101>>, <<32, 68>>, <<115>>, <<120>>}

\* "EMPREGADO"
EmpregadoMaiusc == <<69, 77, 80, 82, 69, 71, 65, 68, 79>>
\* "BIBLIOTECARIO" with capital A-acute (195 129)
BibliotecarioMaiusc == <<66, 73, 66, 76, 73, 79, 84, 69, 67, 195, 129, 82, 73, 79>>
\* "jardineiro"
JardineiroMinusc == <<106, 97, 114, 100, 105, 110, 101, 105, 114, 111>>
\* "Mordomo"
Mordomo == <<77, 111, 114, 100, 111, 109, 111>>

\* lines of a keyboard that also delivers "", " \t", "S", "left", "right", "exit"
LinhasTeclado ==
    Linhas \cup {<<>>, <<32, 9>>, <<83>>, <<108, 101, 102, 116>>,
                 <<114, 105, 103, 104, 116>>, <<101, 120, 105, 116>>}

\* lines the player may type as the accusation (the last one is the empty line)
Acusacoes ==
    {Jardineiro, JardineiroMinusc, Empregado, EmpregadoMaiusc, Bibliotecario,
     BibliotecarioMaiusc, Mordomo, <<>>}

----------------------------------------------------------------------------
(* explorarSalas *)

\* variant: the byte is not lower-cased
escolha_sem_tolower(buf) ==
    LET ns == {i \in 1..Len(buf) : ~isspace(buf[i])}
    IN  IF ns = {} THEN 0 ELSE buf[MenorIndice(ns)]

\* first non-space byte of the buffer, lower-cased; 0 when there is none
escolha(buf) ==
    LET ns == {i \in 1..Len(buf) : ~isspace(buf[i])}
    IN  IF ns = {} THEN 0 ELSE tolower(buf[MenorIndice(ns)])

\* capacity after the growth step at the top of the loop
NovaCap(c, n) == IF n + 1 > c THEN (IF c = 0 THEN CapInicial ELSE c * 2) ELSE c

\* variant: the clue collected starts a new tree
Coletar_em_arvore_nova(raiz, sala, n) ==
    IF sala.pista # NULL /\ Deref(sala.pista) # <<>>
    THEN inserirPista(NULL, sala.pista, n) ELSE raiz

\* the clue tree after the room's clue, if any, is collected
Coletar(raiz, sala, n) ==
    IF sala.pista # NULL /\ Deref(sala.pista) # <<>>
    THEN inserirPista(raiz, sala.pista, n) ELSE raiz

\* variant: the entries numbered from 0
ImprimirHistorico_de_zero(h) == [i \in 1..Len(h) |-> [num |-> i - 1, nome |-> h[i]]]

\* the numbered lines printed after the loop, for i = 0 .. n-1: i+1 and
\* historico[i], which is h[i+1] here; none when n = 0
ImprimirHistorico(h) ==
    [k \in 1..Len(h) |-> LET i == k - 1 IN [num |-> i + 1, nome |-> h[i + 1]]]

\* the outcomes an allocation may have: it may fail only when memory is scarce
Mallocs ==
    IF cenario = "escassez" /\ Len(erros) < MaxFalhas THEN BOOLEAN ELSE {TRUE}

\* the lines stdin may deliver at the command prompt
LinhasDoCenario == IF cenario = "teclado" THEN LinhasTeclado ELSE Linhas

\* the history is followed up to this many entries
LimiteHist ==
    IF cenario = "teclado" THEN MaxHistTeclado
    ELSE IF cenario = "escassez" THEN MaxHistEscassez
    ELSE MaxHist

\* a step that reads the structures le and then releases the structures libera
Evento(op, le, libera) == [op |-> op, le |-> le, libera |-> libera]

\* a pass of the loop for sala: its name goes to the history and is printed; its
\* clue, if any, is printed, inserted in the clue tree and looked up in the table
Entrar(sala) ==
    Evento("entrar",
           IF sala.pista # NULL /\ Deref(sala.pista) # <<>>
           THEN {"salas", "pistas", "hash"} ELSE {"salas"},
           {})

\* after the loop: the names the history points to are printed, then the
\* history buffer is released
FimDeExplorar ==
    <<Evento("imprimir historico", {"historico", "salas"}, {}),
      Evento("free(historico)", {}, {"historico"})>>

\* nothing was announced
SemAnuncio == [pista |-> NULL, aponta |-> NULL]

\* variant: the table is not consulted
Anunciar_sem_consulta(tab, sala) ==
    IF sala.pista # NULL /\ Deref(sala.pista) # <<>>
    THEN [pista |-> sala.pista, aponta |-> NULL]
    ELSE SemAnuncio

\* what is printed on entering sala: the clue found (NULL for "Nenhuma pista
\* nesta sala") and the suspect it points to (NULL for "Nenhum suspeito
\* conhecido para esta pista")
Anunciar(tab, sala) ==
    IF sala.pista # NULL /\ Deref(sala.pista) # <<>>
    THEN [pista |-> sala.pista, aponta |-> encontrarSuspeito(tab, sala.pista)]
    ELSE SemAnuncio

\* the non-empty text a char pointer holds, as a set
Textos(p) == IF p # NULL /\ Deref(p) # <<>> THEN {Deref(p)} ELSE {}

\* top of the loop with atual = p: record the visit, collect the clue, up to
\* the prompt; tmp and n tell whether the realloc of the history and the malloc
\* of inserirPista, when they are reached, succeed.  A failed realloc breaks
\* out of the loop, to the printing of the history.
TopoDoLaco(p, tmp, n) ==
    /\ atual' = p
    /\ IF Len(historico) + 1 > cap /\ ~tmp
       THEN /\ erros' = Append(erros, "historico")
            /\ fase' = "saiu"
            /\ emitido' = ImprimirHistorico(historico)
            /\ rastro' = rastro \o FimDeExplorar
            /\ UNCHANGED <<cap, historico, pistasRoot, inseridas, anuncio>>
       ELSE /\ cap' = NovaCap(cap, Len(historico))
            /\ historico' = Append(historico, salas[Deref(p)].nome)
            /\ pistasRoot' = Coletar(pistasRoot, salas[Deref(p)], n)
            /\ inseridas' = inseridas \cup Textos(salas[Deref(p)].pista)
            /\ erros' = IF erro_inserirPista(pistasRoot, salas[Deref(p)].pista, n)
                        THEN Append(erros, "PistaNode") ELSE erros
            /\ anuncio' = Anunciar(ht, salas[Deref(p)])
            /\ rastro' = Append(rastro, Entrar(salas[Deref(p)]))
            /\ fase' = "explorando"
            /\ UNCHANGED emitido

\* main calls explorarSalas(hall, ht, &pistasRoot): up to the first prompt
Iniciar ==
    /\ fase = "inicio"
    /\ \E tmp, n \in Mallocs : TopoDoLaco(Ptr("hall"), tmp, n)
    /\ UNCHANGED <<salas, ht, sinal, lidas, eof, lista, veredito, cenario, ultimo,
                   passos, listagem, liberados>>

\* variant: the exploration ends when the chosen path does not exist
RamoSemSaidaEncerra(c, p, sala) ==
    IF c = 115 THEN [msg |-> "saindo", prox |-> NULL]
    ELSE IF c = 101
         THEN IF sala.esq # NULL THEN [msg |-> "moveu", prox |-> sala.esq]
              ELSE [msg |-> "esq_indisponivel", prox |-> NULL]
    ELSE IF c = 100
         THEN IF sala.dir # NULL THEN [msg |-> "moveu", prox |-> sala.dir]
              ELSE [msg |-> "dir_indisponivel", prox |-> NULL]
    ELSE [msg |-> "opcao_invalida", prox |-> p]

\* variant: 'e' and 'd' exchanged
RamoTrocado(c, p, sala) ==
    IF c = 115 THEN [msg |-> "saindo", prox |-> NULL]
    ELSE IF c = 100
         THEN IF sala.esq # NULL THEN [msg |-> "moveu", prox |-> sala.esq]
              ELSE [msg |-> "esq_indisponivel", prox |-> p]
    ELSE IF c = 101
         THEN IF sala.dir # NULL THEN [msg |-> "moveu", prox |-> sala.dir]
              ELSE [msg |-> "dir_indisponivel", prox |-> p]
    ELSE [msg |-> "opcao_invalida", prox |-> p]

\* variant: a path that does not exist leads back to the hall
RamoDeVolta(c, p, sala) ==
    IF c = 115 THEN [msg |-> "saindo", prox |-> NULL]
    ELSE IF c = 101
         THEN IF sala.esq # NULL THEN [msg |-> "moveu", prox |-> sala.esq]
              ELSE [msg |-> "esq_indisponivel", prox |-> Ptr("hall")]
    ELSE IF c = 100
         THEN IF sala.dir # NULL THEN [msg |-> "moveu", prox |-> sala.dir]
              ELSE [msg |-> "dir_indisponivel", prox |-> Ptr("hall")]
    ELSE [msg |-> "opcao_invalida", prox |-> p]

\* the branch taken on the choice c in the room sala: the message printed and
\* the room the loop continues with (NULL when the loop is left)
Ramo(c, p, sala) ==
    IF c = 115 THEN [msg |-> "saindo", prox |-> NULL]
    ELSE IF c = 101
         THEN IF sala.esq # NULL THEN [msg |-> "moveu", prox |-> sala.esq]
              ELSE [msg |-> "esq_indisponivel", prox |-> p]
    ELSE IF c = 100
         THEN IF sala.dir # NULL THEN [msg |-> "moveu", prox |-> sala.dir]
              ELSE [msg |-> "dir_indisponivel", prox |-> p]
    ELSE [msg |-> "opcao_invalida", prox |-> p]

\* from the prompt: the buffer holds buf; run to the next prompt or to the return
Processar(buf) ==
    LET r == Ramo(escolha(buf), atual, salas[Deref(atual)])
    IN  /\ sinal' = r.msg
        /\ passos' = IF r.msg = "moveu" THEN passos + 1 ELSE passos
        /\ IF r.prox = NULL
           THEN /\ fase' = "saiu"
                /\ emitido' = ImprimirHistorico(historico)
                /\ rastro' = rastro \o FimDeExplorar
                /\ UNCHANGED <<atual, cap, historico, pistasRoot, inseridas, erros,
                               anuncio>>
           ELSE /\ Len(historico) < LimiteHist
                /\ \E tmp, n \in Mallocs : TopoDoLaco(r.prox, tmp, n)
        /\ UNCHANGED <<salas, ht, lista, veredito, cenario, ultimo, listagem,
                       liberados>>

LerComando(linha) ==
    /\ fase = "explorando"
    /\ ~eof
    /\ lidas' = Append(lidas, linha)
    /\ eof' = eof
    /\ Processar(ler_linha(linha, FALSE, TamBuf))

\* fgets returns NULL: end of input
LerFimDaEntrada ==
    /\ fase = "explorando"
    /\ eof' = TRUE
    /\ lidas' = lidas
    /\ Processar(ler_linha(<<>>, TRUE, TamBuf))

----------------------------------------------------------------------------
(* main after explorarSalas *)

Verificar(linha, fim) ==
    LET r == verificarSuspeitoFinal(pistasRoot, ht, linha, fim)
    IN  /\ (~fim => ~eof)
        /\ veredito' = r.veredito
        /\ lista' = r.lista
        /\ lidas' = IF r.leu /\ ~fim THEN Append(lidas, linha) ELSE lidas
        /\ eof' = (eof \/ (r.leu /\ fim))
        /\ listagem' = r.listagem

\* variant: main releases the structures before the judgement
DepoisDeExplorar_liberando_antes ==
    <<Evento("liberarPistas", {"pistas"}, {"pistas"}),
      Evento("liberarHash", {"hash"}, {"hash"}),
      Evento("liberarSalas", {"salas"}, {"salas"}),
      Evento("verificarSuspeitoFinal", {"pistas", "hash"}, {})>>

\* what main does after explorarSalas returns: the judgement, which walks the
\* clue tree and the table, then the three releases, each walking its structure
DepoisDeExplorar ==
    <<Evento("verificarSuspeitoFinal", {"pistas", "hash"}, {}),
      Evento("liberarPistas", {"pistas"}, {"pistas"}),
      Evento("liberarHash", {"hash"}, {"hash"}),
      Evento("liberarSalas", {"salas"}, {"salas"})>>

\* nothing was released
NadaLiberado == [pistas |-> <<>>, hash |-> <<>>, salas |-> <<>>, mapa |-> NULL]

\* main after explorarSalas: the judgement, then the teardown
Julgamento ==
    /\ fase = "saiu"
    /\ fase' = "fim"
    /\ \/ \E linha \in Acusacoes : Verificar(linha, FALSE)
       \/ Verificar(<<>>, TRUE)
    /\ liberados' = [pistas |-> liberarPistas(pistasRoot, <<>>),
                     hash |-> liberarHash(ht),
                     salas |-> liberarSalas(Ptr("hall")),
                     mapa |-> Ptr("hall")]
    /\ rastro' = rastro \o DepoisDeExplorar
    /\ UNCHANGED <<salas, ht, pistasRoot, atual, historico, cap, sinal, emitido,
                   inseridas, cenario, erros, ultimo, passos, anuncio>>

Init ==
    /\ salas = Mansao
    /\ ht = TabelaDeMain
    /\ pistasRoot = NULL
    /\ atual = NULL
    /\ historico = <<>>
    /\ cap = 0
    /\ fase = "inicio"
    /\ sinal = "nenhum"
    /\ emitido = <<>>
    /\ lidas = <<>>
    /\ eof = FALSE
    /\ lista = <<>>
    /\ veredito = "nenhum"
    /\ inseridas = {}
    /\ cenario = "jogo"
    /\ erros = <<>>
    /\ ultimo = UltimasDe(Associacoes)
    /\ passos = 0
    /\ listagem = SemListagem
    /\ liberados = NadaLiberado
    /\ anuncio = SemAnuncio
    /\ rastro = <<>>

Next ==
    \/ Iniciar
    \/ \E linha \in LinhasDoCenario : LerComando(linha)
    \/ LerFimDaEntrada
    \/ Julgamento

Spec == Init /\ [][Next]_vars

\* the program with a keyboard that delivers more kinds of lines
InitTeclado ==
    /\ salas = Mansao
    /\ ht = TabelaDeMain
    /\ pistasRoot = NULL
    /\ atual = NULL
    /\ historico = <<>>
    /\ cap = 0
    /\ fase = "inicio"
    /\ sinal = "nenhum"
    /\ emitido = <<>>
    /\ lidas = <<>>
    /\ eof = FALSE
    /\ lista = <<>>
    /\ veredito = "nenhum"
    /\ inseridas = {}
    /\ cenario = "teclado"
    /\ erros = <<>>
    /\ ultimo = UltimasDe(Associacoes)
    /\ passos = 0
    /\ listagem = SemListagem
    /\ liberados = NadaLiberado
    /\ anuncio = SemAnuncio
    /\ rastro = <<>>

SpecTeclado == InitTeclado /\ [][Next]_vars

\* the program with scarce memory: up to MaxFalhas allocations fail, those of
\* main's insertions into the table included
InitEscassez ==
    /\ salas = Mansao
    /\ \E falhas \in SUBSET (1..Len(Associacoes)) :
          /\ Cardinality(falhas) <= MaxFalhas
          /\ ht = MainInsere(falhas).tab
          /\ erros = MainInsere(falhas).erros
    /\ pistasRoot = NULL
    /\ atual = NULL
    /\ historico = <<>>
    /\ cap = 0
    /\ fase = "inicio"
    /\ sinal = "nenhum"
    /\ emitido = <<>>
    /\ lidas = <<>>
    /\ eof = FALSE
    /\ lista = <<>>
    /\ veredito = "nenhum"
    /\ inseridas = {}
    /\ cenario = "escassez"
    /\ ultimo = UltimasDe(Associacoes)
    /\ passos = 0
    /\ listagem = SemListagem
    /\ liberados = NadaLiberado
    /\ anuncio = SemAnuncio
    /\ rastro = <<>>

SpecEscassez == InitEscassez /\ [][Next]_vars

----------------------------------------------------------------------------
(* The structures on their own: the functions called in any order, with    *)
(* clue texts, keys and suspect names drawn from small sets.               *)

\* "a", "ab", "A", c-cedilla
PistasLivres == {<<97>>, <<97, 98>>, <<65>>, <<195, 167>>}
\* the clue texts used as keys of the table: "a", "ab", "A"
ChavesLivres == {<<97>>, <<97, 98>>, <<65>>}
\* "X", "x", "Y"
SuspeitosLivres == {<<88>>, <<120>>, <<89>>}
\* "X", "x", "y", "Z", ""
AcusacoesLivres == {<<88>>, <<120>>, <<121>>, <<90>>, <<>>}
\* numbers of buckets of the table: with 3, "ab" and "A" share a bucket and
\* "a" is alone in another
TamanhosLivres == {3}
\* the rooms liberarSalas is called on, besides NULL
SalasLivres == {"hall", "corredor", "jardim"}

InitLivre ==
    /\ salas = Mansao
    /\ ht \in {criarHash(n) : n \in TamanhosLivres}
    /\ pistasRoot = NULL
    /\ atual = NULL
    /\ historico = <<>>
    /\ cap = 0
    /\ fase = "livre"
    /\ sinal = "nenhum"
    /\ emitido = <<>>
    /\ lidas = <<>>
    /\ eof = FALSE
    /\ lista = <<>>
    /\ veredito = "nenhum"
    /\ inseridas = {}
    /\ cenario = "jogo"
    /\ erros = <<>>
    /\ ultimo = {}
    /\ passos = 0
    /\ listagem = SemListagem
    /\ liberados = NadaLiberado
    /\ anuncio = SemAnuncio
    /\ rastro = <<>>

\* pistasRoot = inserirPista(pistasRoot, p)
LivreInserirPista(p) ==
    /\ fase = "livre"
    /\ pistasRoot' = inserirPista(pistasRoot, p, TRUE)
    /\ inseridas' = inseridas \cup Textos(p)
    /\ UNCHANGED <<salas, ht, atual, historico, cap, fase, sinal, emitido, lidas,
                   eof, lista, veredito, cenario, erros, ultimo, passos, listagem,
                   liberados, anuncio, rastro>>

\* inserirNaHash(ht, k, s)
LivreInserirNaHash(k, s) ==
    /\ fase = "livre"
    /\ ht' = inserirNaHash(ht, Ptr(k), Ptr(s), TRUE)
    /\ ultimo' = {u \in ultimo : u[1] # k} \cup {<<k, s>>}
    /\ UNCHANGED <<salas, pistasRoot, atual, historico, cap, fase, sinal, emitido,
                   lidas, eof, lista, veredito, inseridas, cenario, erros, passos,
                   listagem, liberados, anuncio, rastro>>

\* verificarSuspeitoFinal(pistasRoot, ht)
LivreVerificar ==
    /\ fase = "livre"
    /\ fase' = "julgado"
    /\ \/ \E linha \in AcusacoesLivres : Verificar(linha, FALSE)
       \/ Verificar(<<>>, TRUE)
    /\ UNCHANGED <<salas, ht, pistasRoot, atual, historico, cap, sinal, emitido,
                   inseridas, cenario, erros, ultimo, passos, liberados, anuncio,
                   rastro>>

\* liberarPistas(pistasRoot); liberarHash(ht); liberarSalas(p)
LivreLiberar(p) ==
    /\ fase = "livre"
    /\ fase' = "liberado"
    /\ liberados' = [pistas |-> liberarPistas(pistasRoot, <<>>),
                     hash |-> liberarHash(ht),
                     salas |-> liberarSalas(p),
                     mapa |-> p]
    /\ UNCHANGED <<salas, ht, pistasRoot, atual, historico, cap, sinal, emitido,
                   lidas, eof, lista, veredito, inseridas, cenario, erros, ultimo,
                   passos, listagem, anuncio, rastro>>

NextLivre ==
    \/ \E p \in {Ptr(c) : c \in PistasLivres} \cup {Ptr(<<>>), NULL} :
           LivreInserirPista(p)
    \/ \E k \in ChavesLivres, s \in SuspeitosLivres : LivreInserirNaHash(k, s)
    \/ LivreVerificar
    \/ \E p \in {Ptr(r) : r \in SalasLivres} \cup {NULL} : LivreLiberar(p)

SpecLivre == InitLivre /\ [][NextLivre]_vars

----------------------------------------------------------------------------
(* Properties *)

\* the line read last
Ultima == lidas[Len(lidas)]

\* the room p points to has no exits
EhFolha(p) == salas[Deref(p)].esq = NULL /\ salas[Deref(p)].dir = NULL

\* the commands right, left, exit as typed: " D", "e", "s"
DirEsqSair == <<<<32, 68>>, <<101>>, <<115>>>>

\* the clue texts held by the nodes of a clue tree
RECURSIVE PistasDaArvore(_)
PistasDaArvore(raiz) ==
    IF raiz = NULL THEN {}
    ELSE {Deref(raiz).pista} \cup PistasDaArvore(Deref(raiz).esq)
            \cup PistasDaArvore(Deref(raiz).dir)

\* a is below b in the byte-wise lexical order
MenorLex(a, b) ==
    \E k \in 0..Len(a) :
        /\ k <= Len(b)
        /\ \A i \in 1..k : a[i] = b[i]
        /\ \/ k = Len(a) /\ k < Len(b)
           \/ k < Len(a) /\ k < Len(b) /\ a[k + 1] < b[k + 1]

\* how many clues of the tree the table binds to the suspect s
Contagem(s) ==
    Cardinality({c \in PistasDaArvore(pistasRoot) :
                    encontrarSuspeito(ht, Ptr(c)) = Ptr(s)})

\* the suspect names with clues in the tree that the accused name matches
Casam(acusado) ==
    {s \in SuspeitosLivres :
        str_lower(s) = str_lower(acusado) /\ Contagem(s) > 0}

\* verificarSuspeitoFinal has judged an accusation
Julgou(f) == fase = f /\ veredito \in {"Improcedente", "Culpado", "Insuficiente"}

\* C1: a left (right) command in a room with no left (right) child leaves the
\* cursor, the visit history and the clue tree unchanged.
C1_MovimentoInvalidoNaoRegistra ==
    [][(/\ fase = "explorando"
        /\ lidas' # lidas
        /\ sinal' \in {"esq_indisponivel", "dir_indisponivel"})
       => (/\ atual' = atual
           /\ historico' = historico
           /\ pistasRoot' = pistasRoot)]_vars

\* C2: end-of-input at the command prompt ends the exploration like 's': the
\* loop is left and the history is printed.
C2_FimDaEntradaEncerra ==
    [][(fase = "explorando" /\ eof') => (fase' = "saiu" /\ emitido' = ImprimirHistorico(historico))]_vars

\* C3: arriving at a room with no exits does not end the exploration; there
\* 'e' and 'd' are rejected and the cursor stays; only the command 's' ends it.
C3_FolhaNaoEncerra ==
    [][/\ (atual' # atual /\ EhFolha(atual')) => fase' = "explorando"
       /\ (fase = "explorando" /\ EhFolha(atual))
            => /\ atual' = atual
               /\ sinal' # "moveu"
               /\ lidas' = Append(lidas, <<101>>)
                    => (sinal' = "esq_indisponivel" /\ fase' = "explorando")
               /\ lidas' = Append(lidas, <<32, 68>>)
                    => (sinal' = "dir_indisponivel" /\ fase' = "explorando")
       /\ (fase = "explorando" /\ fase' # "explorando")
            => (fase' = "saiu" /\ lidas' = Append(lidas, <<115>>))]_vars

\* C3 witness: a move was rejected in a room with no exits and the exploration goes on
C3_Testemunha ==
    /\ fase = "explorando"
    /\ EhFolha(atual)
    /\ sinal \in {"esq_indisponivel", "dir_indisponivel"}

\* C4 as stated: after right, left, exit, accusing "Jardineiro" is dismissed
\* for lack of any matching clue.
C4_JardineiroImprocedente ==
    (fase = "fim" /\ lidas = DirEsqSair \o <<Jardineiro>>)
        => veredito = "Improcedente"

\* C4 amended: after right, left, exit, accusing "Jardineiro" yields insufficient
\* evidence: exactly one collected clue ("Pegadas de lama") points to him.
C4_JardineiroInsuficiente ==
    (fase = "fim" /\ lidas = DirEsqSair \o <<Jardineiro>>)
        => /\ veredito = "Insuficiente"
           /\ \E i \in 1..Len(lista) :
                 lista[i] = [nome |-> Jardineiro, cont |-> 1]
           /\ PegadasDeLama \in PistasDaArvore(pistasRoot)

C4_Testemunha == fase = "fim" /\ lidas = DirEsqSair \o <<Jardineiro>>

\* C5: after right, left, exit the history is Hall de Entrada, Corredor, Quarto,
\* the clue tree holds exactly "Pegadas de lama" and "Lencol manchado", and
\* accusing "Empregado" yields insufficient evidence.
C5_DirEsqSair ==
    (fase \in {"saiu", "fim"} /\ Len(lidas) >= 3 /\ SubSeq(lidas, 1, 3) = DirEsqSair)
        => /\ historico = <<"Hall de Entrada", "Corredor", "Quarto">>
           /\ emitido = <<[num |-> 1, nome |-> "Hall de Entrada"],
                          [num |-> 2, nome |-> "Corredor"],
                          [num |-> 3, nome |-> "Quarto"]>>
           /\ PistasDaArvore(pistasRoot) = {PegadasDeLama, LencolManchado}
           /\ exibirPistas(pistasRoot) = <<LencolManchado, PegadasDeLama>>
           /\ (fase = "fim" /\ lidas = DirEsqSair \o <<Empregado>>)
                => veredito = "Insuficiente"

C5_Testemunha ==
    /\ fase = "fim"
    /\ lidas = DirEsqSair \o <<Empregado>>
    /\ Len(historico) = 3

\* C6: the list built at the judgement has one entry per suspect to whom the
\* table binds at least one clue of the tree, with the number of such clues as
\* its count; unbound clues add nothing.
C6_ContagemPorSuspeito ==
    (fase = "julgado" /\ veredito # "SemPistas")
        => /\ \A i \in 1..Len(lista) :
                 lista[i].cont >= 1 /\ lista[i].cont = Contagem(lista[i].nome)
           /\ \A i, j \in 1..Len(lista) : lista[i].nome = lista[j].nome => i = j
           /\ \A s \in SuspeitosLivres :
                 Contagem(s) > 0 => \E i \in 1..Len(lista) : lista[i].nome = s

\* C6 witness: three clues in the tree, two bound to "X", one unbound: X -> 2
C6_Testemunha ==
    /\ fase = "julgado"
    /\ Cardinality(PistasDaArvore(pistasRoot)) = 3
    /\ lista = <<[nome |-> <<88>>, cont |-> 2]>>
    /\ \E c \in PistasDaArvore(pistasRoot) : encontrarSuspeito(ht, Ptr(c)) = NULL

\* C7: the accusation is dismissed exactly when no suspect with clues in the tree
\* matches the accused name; otherwise the verdict is guilty with a matched
\* count of at least 2 and insufficient with a matched count of 1; rebinding
\* one of the two clues of the only matching suspect to another suspect turns
\* guilty into insufficient.
C7_Veredito ==
    Julgou("julgado")
        => /\ veredito = "Improcedente" <=> Casam(Ultima) = {}
           /\ veredito = "Culpado"
                => \E s \in Casam(Ultima) : Contagem(s) >= MinPistas
           /\ veredito = "Insuficiente"
                => \E s \in Casam(Ultima) : Contagem(s) = 1
           /\ \A x \in Casam(Ultima), y \in SuspeitosLivres, b \in ChavesLivres :
                 (/\ Casam(Ultima) = {x}
                  /\ Contagem(x) = 2
                  /\ b \in PistasDaArvore(pistasRoot)
                  /\ encontrarSuspeito(ht, Ptr(b)) = Ptr(x)
                  /\ str_lower(y) # str_lower(x))
                 => /\ veredito = "Culpado"
                    /\ Julgar(contar_pistas_por_suspeito(pistasRoot,
                                  inserirNaHash(ht, Ptr(b), Ptr(y), TRUE), <<>>),
                              Ultima) = "Insuficiente"

\* C7 witness: a guilty verdict for the only matching suspect, who has two clues
C7_Testemunha ==
    /\ Julgou("julgado")
    /\ veredito = "Culpado"
    /\ \E x \in SuspeitosLivres : Casam(Ultima) = {x} /\ Contagem(x) = 2

\* the name with its letters in lower case: A-Z, and the two-byte letters
\* A-grave .. Thorn (195 128 .. 195 158, but the sign 195 151)
LetrasMinusculas(s) ==
    [i \in 1..Len(s) |->
        IF s[i] >= 65 /\ s[i] <= 90 THEN s[i] + 32
        ELSE IF i > 1 /\ s[i - 1] = 195 /\ s[i] >= 128 /\ s[i] <= 158
                /\ s[i] # 151
             THEN s[i] + 32
        ELSE s[i]]

\* C8: an accused name that differs from the name of a list entry only in the
\* case of its letters matches that entry and gets the verdict of its count.
C8_CaixaIgnorada ==
    Julgou("fim")
        => \A i \in 1..Len(lista) :
              LetrasMinusculas(lista[i].nome) = LetrasMinusculas(Ultima)
                => veredito = IF lista[i].cont >= MinPistas
                              THEN "Culpado" ELSE "Insuficiente"

\* C9: with an empty clue tree the judgement reports that no clue was collected,
\* builds no list and reads nothing from stdin.
C9_SemPistas ==
    (fase = "julgado" /\ pistasRoot = NULL)
        => /\ veredito = "SemPistas"
           /\ lista = <<>>
           /\ lidas = <<>>
           /\ ~eof

\* C9 witness: the judgement ran on an empty tree while the table binds a clue
C9_Testemunha ==
    /\ fase = "julgado"
    /\ pistasRoot = NULL
    /\ encontrarSuspeito(ht, Ptr(<<97>>)) # NULL

\* C10: the in-order listing of the clue tree is strictly increasing in the
\* byte-wise lexical order and holds exactly the clue texts inserted.
C10_ListagemOrdenada ==
    LET e == exibirPistas(pistasRoot)
    IN  /\ \A i, j \in 1..Len(e) : i < j => MenorLex(e[i], e[j])
        /\ {e[i] : i \in 1..Len(e)} = inseridas

\* C10 witness: four clues in a tree whose root has both subtrees
C10_Testemunha ==
    /\ Len(exibirPistas(pistasRoot)) = 4
    /\ Deref(pistasRoot).esq # NULL
    /\ Deref(pistasRoot).dir # NULL

\* C11: inserting a clue that is already in the tree returns the same tree, so
\* a second insertion of a clue changes nothing and the tree has one node per
\* distinct text inserted; texts that differ only in case are two nodes.
C11_InsercaoIdempotente ==
    LET e == exibirPistas(pistasRoot)
    IN  /\ Len(e) = Cardinality(inseridas)
        /\ \A c \in PistasLivres :
              LET l1 == inserirPista(pistasRoot, Ptr(c), TRUE)
              IN  /\ inserirPista(l1, Ptr(c), TRUE) = l1
                  /\ c \in inseridas => l1 = pistasRoot
        /\ \A a, b \in inseridas :
              (a # b /\ str_lower(a) = str_lower(b))
                 => \E i, j \in 1..Len(e) : i # j /\ e[i] = a /\ e[j] = b

\* C11 witness: "a" and "A" are both in the tree, with a third clue
C11_Testemunha ==
    /\ fase = "livre"
    /\ {<<97>>, <<65>>} \subseteq PistasDaArvore(pistasRoot)
    /\ Len(exibirPistas(pistasRoot)) = 3

\* the entries of the table, bucket after bucket, each chain from its head
Entradas(tab) ==
    LET t == Deref(tab)
        e[i \in 0..t.tamanho] == IF i = 0 THEN <<>> ELSE e[i - 1] \o t.buckets[i]
    IN  e[t.tamanho]

\* C12: for every key, encontrarSuspeito returns the suspect of the last
\* inserirNaHash call for that key, whichever keys share its bucket, and NULL
\* for a key that was never inserted.
C12_UltimaAssociacao ==
    /\ \A k \in ChavesLivres :
          /\ \A s \in SuspeitosLivres :
                <<k, s>> \in ultimo => encontrarSuspeito(ht, Ptr(k)) = Ptr(s)
          /\ (\A s \in SuspeitosLivres : <<k, s>> \notin ultimo)
                => encontrarSuspeito(ht, Ptr(k)) = NULL
    /\ \A k \in PistasLivres \ ChavesLivres : encontrarSuspeito(ht, Ptr(k)) = NULL

\* C12 witness: the three keys are bound, two of them in one chain and to
\* different suspects
C12_Testemunha ==
    /\ Cardinality(ultimo) = 3
    /\ \E b \in 1..Deref(ht).tamanho :
          /\ Len(Deref(ht).buckets[b]) = 2
          /\ Deref(ht).buckets[b][1].suspeito # Deref(ht).buckets[b][2].suspeito

\* C13: no two entries of the table have the same key, and a call of
\* inserirNaHash for a key already in the table changes the suspect of that
\* entry only: the number of entries and every other entry stay as they were.
C13_ChavesUnicas ==
    [][/\ \A i, j \in 1..Len(Entradas(ht')) :
             Entradas(ht')[i].chave = Entradas(ht')[j].chave => i = j
       /\ \A k \in ChavesLivres, s \in SuspeitosLivres :
             (/\ fase' = "livre"
              /\ ultimo' = {u \in ultimo : u[1] # k} \cup {<<k, s>>}
              /\ encontrarSuspeito(ht, Ptr(k)) # NULL)
             => /\ Len(Entradas(ht')) = Len(Entradas(ht))
                /\ \A i \in 1..Len(Entradas(ht)) :
                      Entradas(ht')[i] =
                          IF Entradas(ht)[i].chave = k
                          THEN [chave |-> k, suspeito |-> s]
                          ELSE Entradas(ht)[i]]_vars

\* C13 witness: three entries, all of them bound to "x"
C13_Testemunha ==
    /\ Len(Entradas(ht)) = 3
    /\ \A i \in 1..3 : Entradas(ht)[i].suspeito = <<120>>

\* C14: while exploring, the command 's' can be given in every room; it ends
\* the exploration without changing the cursor, the history or the clue tree,
\* and the whole history is printed in order of arrival, numbered from 1.
\* After the exploration has ended no command is read, and the cursor, the
\* history, the listing printed and the clue tree never change.
C14_SairSempre ==
    [][/\ (fase = "explorando" /\ ~eof) => ENABLED LerComando(<<115>>)
       /\ (fase = "explorando" /\ lidas' = Append(lidas, <<115>>))
             => /\ fase' = "saiu"
                /\ sinal' = "saindo"
                /\ atual' = atual
                /\ historico' = historico
                /\ pistasRoot' = pistasRoot
                /\ Len(emitido') = Len(historico)
                /\ \A i \in 1..Len(historico) :
                      emitido'[i] = [num |-> i, nome |-> historico[i]]
       /\ fase \in {"saiu", "fim"}
             => /\ fase' \in {"saiu", "fim"}
                /\ atual' = atual
                /\ historico' = historico
                /\ pistasRoot' = pistasRoot
                /\ emitido' = emitido
                /\ sinal' = sinal]_vars

\* C14 witness: 's' was typed in the Cozinha, a room with no exits, and the
\* three visits were printed
C14_Testemunha ==
    /\ fase = "saiu"
    /\ sinal = "saindo"
    /\ atual = Ptr("cozinha")
    /\ emitido = <<[num |-> 1, nome |-> "Hall de Entrada"],
                   [num |-> 2, nome |-> "Sala de Estar"],
                   [num |-> 3, nome |-> "Cozinha"]>>

\* h is an initial part of g
Prefixo(h, g) == Len(h) <= Len(g) /\ SubSeq(g, 1, Len(h)) = h

\* C15: the history only grows at its end and has one entry per step taken:
\* while exploring its length is 1 plus the number of moves to a child, its
\* last entry is the name of the current room, and a line that is no command
\* leaves the cursor, the history and the clue tree unchanged and is answered
\* with the invalid-option message.
C15_UmaEntradaPorPasso ==
    [][/\ Prefixo(historico, historico')
       /\ fase' = "explorando"
             => /\ Len(historico') = 1 + passos'
                /\ historico'[Len(historico')] = salas[Deref(atual')].nome
       /\ (fase = "explorando" /\ lidas' = Append(lidas, <<120>>))
             => /\ sinal' = "opcao_invalida"
                /\ fase' = "explorando"
                /\ atual' = atual
                /\ historico' = historico
                /\ pistasRoot' = pistasRoot]_vars

\* the line without its leading white space, its letters in lower case
Token(l) ==
    LET ns == {i \in 1..Len(l) : l[i] \notin {32, 9, 10, 11, 12, 13}}
    IN  IF ns = {} THEN <<>>
        ELSE LetrasMinusculas(SubSeq(l, MenorIndice(ns), Len(l)))

\* the step moves to the left child, or reports that there is none
ComoEsquerda ==
    /\ fase' = "explorando"
    /\ IF salas[Deref(atual)].esq # NULL
       THEN sinal' = "moveu" /\ atual' = salas[Deref(atual)].esq
       ELSE sinal' = "esq_indisponivel" /\ atual' = atual

\* the step moves to the right child, or reports that there is none
ComoDireita ==
    /\ fase' = "explorando"
    /\ IF salas[Deref(atual)].dir # NULL
       THEN sinal' = "moveu" /\ atual' = salas[Deref(atual)].dir
       ELSE sinal' = "dir_indisponivel" /\ atual' = atual

\* the step ends the exploration
ComoSair == fase' = "saiu" /\ sinal' = "saindo"

\* the step rejects the line and prompts again
ComoInvalida == fase' = "explorando" /\ sinal' = "opcao_invalida" /\ atual' = atual

\* "left", "right", "exit"
PalavraLeft == <<108, 101, 102, 116>>
PalavraRight == <<114, 105, 103, 104, 116>>
PalavraExit == <<101, 120, 105, 116>>

\* C16 as stated: the tokens "left"/"e" move left, "right"/"d" move right,
\* "exit"/"s" end the exploration, in any case and after any white space;
\* every other line is rejected.
C16_PalavrasInglesas ==
    [][\A l \in LinhasTeclado :
          (fase = "explorando" /\ lidas' = Append(lidas, l))
             => IF Token(l) \in {PalavraLeft, <<101>>} THEN ComoEsquerda
                ELSE IF Token(l) \in {PalavraRight, <<100>>} THEN ComoDireita
                ELSE IF Token(l) \in {PalavraExit, <<115>>} THEN ComoSair
                ELSE ComoInvalida]_vars

\* C16 amended: the first byte of the line that is no white space decides, in
\* either case: 'e' moves left, 'd' moves right, 's' ends the exploration;
\* every other line, the empty and the blank one and the words "left" and
\* "right" included, is rejected with a new prompt, and the word "exit",
\* which begins with 'e', moves left.
C16_PrimeiraLetra ==
    [][\A l \in LinhasTeclado :
          (fase = "explorando" /\ lidas' = Append(lidas, l))
             => IF Token(l) # <<>> /\ Token(l)[1] = 101 THEN ComoEsquerda
                ELSE IF Token(l) # <<>> /\ Token(l)[1] = 100 THEN ComoDireita
                ELSE IF Token(l) # <<>> /\ Token(l)[1] = 115 THEN ComoSair
                ELSE ComoInvalida]_vars

\* C16 witness: "left" was rejected in the hall, then "exit" moved to the left
C16_Testemunha ==
    /\ fase = "explorando"
    /\ lidas = <<PalavraLeft, PalavraExit>>
    /\ atual = Ptr("salaEstar")
    /\ sinal = "moveu"

\* C17: once an allocation has failed and its diagnostic was printed, the
\* program reads no command and gives no verdict.
C17_FalhaFatal ==
    [][/\ erros' # <<>> => fase' \notin {"explorando", "fim"}
       /\ erros # <<>> => (lidas' = lidas /\ veredito' = "nenhum")]_vars

\* C18: with clues in the tree, an empty accusation line, or the end of the
\* input in its place, cancels the accusation: no verdict is given, and the
\* clue tree and the table stay as they were.
C18_AcusacaoVazia ==
    [][(/\ fase = "livre"
        /\ fase' = "julgado"
        /\ pistasRoot # NULL
        /\ (lidas' = Append(lidas, <<>>) \/ eof'))
          => /\ veredito' = "Cancelada"
             /\ pistasRoot' = pistasRoot
             /\ ht' = ht]_vars

\* C18 witness: the accusation was cancelled at the end of the input, with two
\* clues of the tree bound to one suspect
C18_Testemunha ==
    /\ fase = "julgado"
    /\ veredito = "Cancelada"
    /\ eof
    /\ \E i \in 1..Len(lista) : lista[i].cont = 2

\* C19: the listing of the suspects holds, once each and after its header,
\* exactly the names some key of the table is bound to now, and the line for
\* "none" exactly when the table has no entry.
C19_SuspeitosDistintos ==
    (fase = "julgado" /\ veredito # "SemPistas")
        => LET n == listagem.nomes
           IN  /\ listagem.cabecalho
               /\ {n[i] : i \in 1..Len(n)} = {u[2] : u \in ultimo}
               /\ \A i, j \in 1..Len(n) : n[i] = n[j] => i = j
               /\ listagem.nenhum <=> ultimo = {}

\* C19 witness: three keys bound to two suspects, both listed
C19_Testemunha ==
    /\ fase = "julgado"
    /\ Cardinality(ultimo) = 3
    /\ Len(listagem.nomes) = 2

\* the paths from the root to the nodes of a clue tree
RECURSIVE Caminhos(_, _)
Caminhos(raiz, onde) ==
    IF raiz = NULL THEN {}
    ELSE {onde} \cup Caminhos(Deref(raiz).esq, Append(onde, "esq"))
            \cup Caminhos(Deref(raiz).dir, Append(onde, "dir"))

\* the rooms of the tree p points to
RECURSIVE SalasDe(_)
SalasDe(p) ==
    IF p = NULL THEN {}
    ELSE {Deref(p)} \cup SalasDe(salas[Deref(p)].esq) \cup SalasDe(salas[Deref(p)].dir)

\* position of the block b in the sequence f of free() calls, 0 when absent
Quando(f, b) ==
    IF \E i \in 1..Len(f) : f[i] = b
    THEN CHOOSE i \in 1..Len(f) : f[i] = b ELSE 0

\* C20: liberarSalas and liberarPistas release every node of the tree, its
\* name and its clue exactly once, a node after its own strings and after the
\* nodes below it, and release nothing on an empty tree.
C20_LiberaCadaNoUmaVez ==
    fase = "liberado"
        => LET fp == liberados.pistas
               fs == liberados.salas
               cs == Caminhos(pistasRoot, <<>>)
               ss == SalasDe(liberados.mapa)
           IN  /\ \A i, j \in 1..Len(fp) : fp[i] = fp[j] => i = j
               /\ {fp[i] : i \in 1..Len(fp)}
                     = {[no |-> c, campo |-> x] : c \in cs, x \in {"pista", "no"}}
               /\ \A c \in cs :
                     /\ Quando(fp, [no |-> c, campo |-> "pista"])
                           < Quando(fp, [no |-> c, campo |-> "no"])
                     /\ \A d \in cs :
                           (Len(d) > Len(c) /\ SubSeq(d, 1, Len(c)) = c)
                              => Quando(fp, [no |-> d, campo |-> "no"])
                                    < Quando(fp, [no |-> c, campo |-> "no"])
               /\ \A i, j \in 1..Len(fs) : fs[i] = fs[j] => i = j
               /\ {fs[i] : i \in 1..Len(fs)}
                     = {[sala |-> r, campo |-> x] : r \in ss, x \in {"nome", "sala"}}
                        \cup {[sala |-> r, campo |-> "pista"] :
                                 r \in {q \in ss : salas[q].pista # NULL}}
               /\ \A r \in ss :
                     /\ Quando(fs, [sala |-> r, campo |-> "nome"])
                           < Quando(fs, [sala |-> r, campo |-> "sala"])
                     /\ \A q \in SalasDe(salas[r].esq) \cup SalasDe(salas[r].dir) :
                           Quando(fs, [sala |-> q, campo |-> "sala"])
                              < Quando(fs, [sala |-> r, campo |-> "sala"])
               /\ pistasRoot = NULL => fp = <<>>
               /\ liberados.mapa = NULL => fs = <<>>

\* C20 witness: the whole mansion and a clue tree of four nodes were released
C20_Testemunha ==
    /\ fase = "liberado"
    /\ liberados.mapa = Ptr("hall")
    /\ Len(liberados.salas) = 19
    /\ Len(liberados.pistas) = 8

\* the suspect the table binds to the clue text c, as a set of pointers: read
\* off the entries of the table, without the hash function
Ligados(tab, c) ==
    {Ptr(Entradas(tab)[i].suspeito) :
        i \in {i \in 1..Len(Entradas(tab)) : Entradas(tab)[i].chave = c}}

\* C21: no step of the program from its start to the end of explorarSalas
\* changes the map or the table; the clue tree changes only by gaining the clue
\* of the room entered, the history only by gaining the name of the room
\* entered; and what is printed on entering a room with a clue is the suspect
\* the table binds to that clue, or "no known suspect" when it binds none.
C21_ExploracaoNaoAltera ==
    [][(fase \in {"inicio", "explorando"}) =>
         (/\ salas' = salas
          /\ ht' = ht
          /\ (historico' # historico =>
                 (/\ fase' = "explorando"
                  /\ historico' = Append(historico, salas[Deref(atual')].nome)))
          /\ (pistasRoot' # pistasRoot =>
                 (/\ historico' # historico
                  /\ salas[Deref(atual')].pista # NULL
                  /\ PistasDaArvore(pistasRoot') =
                        PistasDaArvore(pistasRoot)
                           \cup {Deref(salas[Deref(atual')].pista)}))
          /\ (historico' # historico =>
                 (LET p == salas[Deref(atual')].pista
                  IN  IF p = NULL THEN anuncio' = SemAnuncio
                      ELSE /\ anuncio'.pista = p
                           /\ IF Ligados(ht, Deref(p)) = {}
                              THEN anuncio'.aponta = NULL
                              ELSE anuncio'.aponta \in Ligados(ht, Deref(p)))))
      ]_vars

\* C21 witness: the exploration has ended after three rooms; the last room
\* entered has a clue the table binds to nobody, and the clue tree holds it
\* beside a clue that the table binds
C21_Testemunha ==
    /\ fase = "saiu"
    /\ Len(historico) >= 3
    /\ anuncio.pista # NULL
    /\ anuncio.aponta = NULL
    /\ Deref(anuncio.pista) \in PistasDaArvore(pistasRoot)
    /\ \E c \in PistasDaArvore(pistasRoot) : Ligados(ht, c) # {}

\* the nodes of a clue tree, each with its path from the root and its clue
RECURSIVE Nos(_, _)
Nos(raiz, onde) ==
    IF raiz = NULL THEN {}
    ELSE {[onde |-> onde, pista |-> Deref(raiz).pista]}
            \cup Nos(Deref(raiz).esq, Append(onde, "esq"))
            \cup Nos(Deref(raiz).dir, Append(onde, "dir"))

\* the path a is a proper prefix of the path b
AcimaDe(a, b) == Len(a) < Len(b) /\ SubSeq(b, 1, Len(a)) = a

\* every clue of a left subtree is below the clue of its root, every clue of a
\* right subtree above it
Ordenada(raiz) ==
    \A x, y \in Nos(raiz, <<>>) :
        AcimaDe(x.onde, y.onde) =>
            IF y.onde[Len(x.onde) + 1] = "esq"
            THEN MenorLex(y.pista, x.pista)
            ELSE MenorLex(x.pista, y.pista)

\* the tree is a chain of right children
CadeiaDireita(raiz) == \A x \in Nos(raiz, <<>>) : \A i \in 1..Len(x.onde) : x.onde[i] = "dir"

\* number of nodes on the longest path from the root
Altura(raiz) ==
    IF raiz = NULL THEN 0
    ELSE 1 + (CHOOSE m \in 0..Cardinality(Nos(raiz, <<>>)) :
                 /\ \E x \in Nos(raiz, <<>>) : Len(x.onde) = m
                 /\ \A x \in Nos(raiz, <<>>) : Len(x.onde) <= m)

\* C22: a call of inserirPista that changes the clue tree adds one node and
\* leaves every other node at its place with its clue; the new node has no
\* children and its parent, if any, was in the tree; the tree is ordered after
\* every step; and a clue above all the clues of a chain of right children
\* lengthens the chain by one.
C22_InsereUmaFolha ==
    [][/\ Ordenada(pistasRoot')
       /\ (pistasRoot' # pistasRoot =>
             \E novo \in Nos(pistasRoot', <<>>) :
                /\ Nos(pistasRoot', <<>>) = Nos(pistasRoot, <<>>) \cup {novo}
                /\ novo \notin Nos(pistasRoot, <<>>)
                /\ \A x \in Nos(pistasRoot', <<>>) : ~AcimaDe(novo.onde, x.onde)
                /\ Cardinality(Nos(pistasRoot', <<>>)) =
                      Cardinality(Nos(pistasRoot, <<>>)) + 1
                /\ ((/\ CadeiaDireita(pistasRoot)
                     /\ \A x \in Nos(pistasRoot, <<>>) : MenorLex(x.pista, novo.pista))
                    => (/\ CadeiaDireita(pistasRoot')
                        /\ Altura(pistasRoot') = Altura(pistasRoot) + 1)))
      ]_vars

\* C22 witness: the four clues were inserted in ascending order: a chain of
\* right children of depth four
C22_Testemunha ==
    /\ CadeiaDireita(pistasRoot)
    /\ Altura(pistasRoot) = Cardinality(PistasLivres)
    /\ PistasDaArvore(pistasRoot) = PistasLivres

\* the orders in which the clue texts of S can be collected
Ordens(S) ==
    {f \in [1..Cardinality(S) -> S] : \A i, j \in 1..Cardinality(S) : f[i] = f[j] => i = j}

\* the clue tree after the clues of ord are inserted in that order
ArvoreDe(ord) ==
    LET a[k \in 0..Len(ord)] ==
            IF k = 0 THEN NULL ELSE inserirPista(a[k - 1], Ptr(ord[k]), TRUE)
    IN  a[Len(ord)]

\* what verificarSuspeitoFinal read in the harness: a line, or the end of input
LinhaJulgada == IF eof THEN <<>> ELSE Ultima

\* C23: once verificarSuspeitoFinal has run, the list it built and the verdict
\* it printed are those it builds and prints on the clue tree of any other order
\* of collecting the same clues, for the same table and the same accused name.
C23_OrdemIrrelevante ==
    fase = "julgado" =>
        \A ord \in Ordens(PistasDaArvore(pistasRoot)) :
            LET r == verificarSuspeitoFinal(ArvoreDe(ord), ht, LinhaJulgada, eof)
            IN  /\ r.lista = lista
                /\ r.veredito = veredito

\* C23 witness: a verdict on a tree of at least three clues that another order
\* of collecting shapes differently, with two names in the list
C23_Testemunha ==
    /\ Julgou("julgado")
    /\ Cardinality(PistasDaArvore(pistasRoot)) >= 3
    /\ \E ord \in Ordens(PistasDaArvore(pistasRoot)) : ArvoreDe(ord) # pistasRoot
    /\ Len(lista) >= 2
    /\ \E i, j \in 1..Len(lista) :
          i # j /\ str_lower(lista[i].nome) = str_lower(lista[j].nome)

\* the rooms on the way from the room p points to down to the room r, r included;
\* empty when r is not in the tree of p
RECURSIVE CaminhoAte(_, _)
CaminhoAte(p, r) ==
    IF p = NULL THEN <<>>
    ELSE IF Deref(p) = r THEN <<r>>
    ELSE LET e == CaminhoAte(salas[Deref(p)].esq, r)
             d == CaminhoAte(salas[Deref(p)].dir, r)
         IN  IF e # <<>> THEN <<Deref(p)>> \o e
             ELSE IF d # <<>> THEN <<Deref(p)>> \o d
             ELSE <<>>

\* number of rooms on the way from the hall to the room p points to
Profundidade(p) == Len(CaminhoAte(Ptr("hall"), Deref(p)))

\* number of moves on the longest way down from the room p points to
RECURSIVE AlturaDe(_)
AlturaDe(p) ==
    IF p = NULL THEN -1
    ELSE LET e == AlturaDe(salas[Deref(p)].esq)
             d == AlturaDe(salas[Deref(p)].dir)
         IN  1 + (IF e > d THEN e ELSE d)

\* the names of h without the repetitions of a name next to itself
RECURSIVE SemRepetidos(_)
SemRepetidos(h) ==
    IF Len(h) <= 1 THEN h
    ELSE IF h[1] = h[2] THEN SemRepetidos(Tail(h))
    ELSE <<h[1]>> \o SemRepetidos(Tail(h))

\* C24: once explorarSalas has started, atual points to a room of the mansion;
\* a step that changes atual takes it to a child of the room it pointed to, one
\* level deeper; the names of the history, a name repeated next to itself
\* taken once, are the names of the rooms on the way from the hall to atual;
\* no more moves succeed than the height of the mansion, and after that many
\* every 'e' and 'd' is answered with "path not available" and atual stays.
C24_SoDesce ==
    [][/\ (fase' # "inicio" =>
             (/\ atual' # NULL
              /\ Deref(atual') \in SalasDe(Ptr("hall"))
              /\ passos' <= AlturaDe(Ptr("hall"))
              /\ passos' = Profundidade(atual') - 1
              /\ SemRepetidos(historico') =
                    [i \in 1..Profundidade(atual') |->
                        salas[CaminhoAte(Ptr("hall"), Deref(atual'))[i]].nome]))
       /\ ((atual # NULL /\ atual' # atual) =>
             (/\ atual' \in {salas[Deref(atual)].esq, salas[Deref(atual)].dir}
              /\ Profundidade(atual') = Profundidade(atual) + 1
              /\ passos' = passos + 1))
       /\ ((/\ fase = "explorando"
            /\ passos = AlturaDe(Ptr("hall"))
            /\ Len(lidas') = Len(lidas) + 1
            /\ escolha(lidas'[Len(lidas')]) \in {101, 100}) =>
             (/\ atual' = atual
              /\ fase' = "explorando"
              /\ passos' = passos
              /\ sinal' \in {"esq_indisponivel", "dir_indisponivel"}))
      ]_vars

\* C24 witness: two moves took atual to a room without exits, and a third was
\* refused there
C24_Testemunha ==
    /\ fase = "explorando"
    /\ passos = AlturaDe(Ptr("hall"))
    /\ EhFolha(atual)
    /\ sinal \in {"esq_indisponivel", "dir_indisponivel"}
    /\ Len(historico) > 1 + passos

\* the rooms whose names are in the history h
Visitadas(h) == {r \in DOMAIN salas : \E i \in 1..Len(h) : h[i] = salas[r].nome}

\* the non-empty clue texts of the rooms of R
PistasDasSalas(R) == UNION {Textos(salas[r].pista) : r \in R}

\* C25: with allocations that succeed, after every step the clue tree holds the
\* non-empty clues of the rooms named in the history and no other; no step takes
\* a clue out of the tree; and a room created with no clue or with the empty
\* string as its clue leaves the tree as it is when it is entered.
C25_PistasDasVisitadas ==
    [][/\ PistasDaArvore(pistasRoot') = PistasDasSalas(Visitadas(historico'))
       /\ PistasDaArvore(pistasRoot) \subseteq PistasDaArvore(pistasRoot')
       /\ \A pista \in {NULL, Ptr(<<>>)} :
             /\ criarSala("Sala", pista).pista = NULL
             /\ Coletar(pistasRoot', criarSala("Sala", pista), TRUE) = pistasRoot'
             /\ Coletar(pistasRoot', [criarSala("Sala", pista) EXCEPT !.pista = pista],
                        TRUE) = pistasRoot'
       /\ (historico' # historico /\ salas[Deref(atual')].pista = NULL)
             => pistasRoot' = pistasRoot
      ]_vars

\* C25 witness: the hall, the corridor and the garden were entered: the tree
\* holds the clues of the hall and of the garden, the corridor has none
C25_Testemunha ==
    /\ fase = "explorando"
    /\ Visitadas(historico) = {"hall", "corredor", "jardim"}
    /\ PistasDaArvore(pistasRoot) = {PegadasDeLama, GavetaPerdida}
    /\ salas["corredor"].pista = NULL

\* the clues of the tree that the table binds to the suspect s
PistasDe(s) ==
    {c \in PistasDaArvore(pistasRoot) : encontrarSuspeito(ht, Ptr(c)) = Ptr(s)}

\* the least of the clues of the non-empty set S
PrimeiraPista(S) == CHOOSE c \in S : \A d \in S : c = d \/ MenorLex(c, d)

\* C26: when the table binds clues of the tree to two names that differ only in
\* the case of their letters and the accused name matches both, the list holds
\* the two names as two entries, each with the number of its own clues, and the
\* verdict is that of the count of one of them alone: the entry nearer the head
\* of the list, which is the name whose first clue comes later in the order of
\* the clues.  The sum of the two counts plays no part.
C26_DoisNomesUmaContagem ==
    Julgou("julgado") =>
        \A s, t \in SuspeitosLivres :
            (/\ s # t
             /\ str_lower(s) = str_lower(t)
             /\ str_lower(Ultima) = str_lower(s)
             /\ PistasDe(s) # {}
             /\ PistasDe(t) # {}
             /\ MenorLex(PrimeiraPista(PistasDe(s)), PrimeiraPista(PistasDe(t))))
            => /\ \E i, j \in 1..Len(lista) :
                     /\ i < j
                     /\ lista[i] = [nome |-> t, cont |-> Cardinality(PistasDe(t))]
                     /\ lista[j] = [nome |-> s, cont |-> Cardinality(PistasDe(s))]
               /\ veredito = IF Cardinality(PistasDe(t)) >= MinPistas
                             THEN "Culpado" ELSE "Insuficiente"

\* C26 witness: "X" and "x" have one clue each and "x" is accused: the two
\* counts add up to the two clues a guilty verdict asks for, and the verdict is
\* insufficient
C26_Testemunha ==
    /\ Julgou("julgado")
    /\ Cardinality(PistasDe(<<88>>)) = 1
    /\ Cardinality(PistasDe(<<120>>)) = 1
    /\ Ultima = <<120>>
    /\ Len(lista) = 2
    /\ veredito = "Insuficiente"

\* the positions of the steps named op in the trace r
Posicoes(r, op) == {i \in 1..Len(r) : r[i].op = op}

\* every step named a in r comes before every step named b
Antes(r, a, b) == \A i \in Posicoes(r, a), j \in Posicoes(r, b) : i < j

\* C27: the judgement is made only once explorarSalas has ended and printed
\* the history; the structures are released only in the step that has made the
\* judgement, after it; and in the order of the steps no structure is read or
\* released again after the step that releases it: the names the history points
\* to, the clues of the tree and the entries of the table are all read before
\* liberarSalas, liberarPistas and liberarHash.
C27_OrdemDoPrograma ==
    [][/\ ((veredito' # veredito \/ lista' # lista \/ listagem' # listagem) =>
             (/\ fase = "saiu"
              /\ emitido = ImprimirHistorico(historico)
              /\ Posicoes(rastro, "imprimir historico") # {}))
       /\ (fase' = "saiu" =>
             (/\ emitido' = ImprimirHistorico(historico')
              /\ veredito' = "nenhum"
              /\ liberados' = NadaLiberado))
       /\ (liberados' # liberados =>
             (/\ fase = "saiu" /\ fase' = "fim"
              /\ veredito' # "nenhum"
              /\ Posicoes(rastro', "verificarSuspeitoFinal") # {}))
       /\ (fase' = "fim" =>
             \A op \in {"liberarPistas", "liberarHash", "liberarSalas"} :
                 Cardinality(Posicoes(rastro', op)) = 1)
       /\ \A i, j \in 1..Len(rastro') :
             i < j => rastro'[i].libera \cap (rastro'[j].le \cup rastro'[j].libera) = {}
       /\ Antes(rastro', "entrar", "imprimir historico")
       /\ Antes(rastro', "imprimir historico", "verificarSuspeitoFinal")
       /\ \A op \in {"liberarPistas", "liberarHash", "liberarSalas"} :
             /\ Antes(rastro', "verificarSuspeitoFinal", op)
             /\ Antes(rastro', "imprimir historico", op)
             /\ Antes(rastro', "entrar", op)
      ]_vars

\* C27 witness: the program has ended after three rooms, a guilty verdict and
\* the release of the three structures
C27_Testemunha ==
    /\ fase = "fim"
    /\ veredito = "Culpado"
    /\ Cardinality(Posicoes(rastro, "entrar")) >= 3
    /\ liberados.salas # <<>>
    /\ liberados.pistas # <<>>
    /\ liberados.hash # <<>>
    /\ rastro[Len(rastro)].op = "liberarSalas"

====
